---- MODULE Spec2Model ----
(***************************************************************************)
(* Command dispatch of proto-bot: the commandHandler monitor               *)
(* (src/monitors/commandHandler.ts), the alias registration helper         *)
(* (src/utils/helpers.ts) and the registry they share (mod.ts, botCache).  *)
(*                                                                         *)
(* Strings the code inspects character by character (message content,      *)
(* prefixes, command names, alias keys) are sequences of one-character     *)
(* strings.  JavaScript values that the code tests for truthiness are      *)
(* records [type, s, n, b].                                                *)
(***************************************************************************)
EXTENDS Integers, Sequences, FiniteSets, TLC

VARIABLES
    commands,        \* botCache.commands: command name -> Command
    commandAliases,  \* botCache.commandAliases: alias -> name
    arguments,       \* botCache.arguments: the argument types that have a resolver
    inhibitors,      \* botCache.inhibitors: the registered inhibitor keys
    disp,            \* one record per dispatch (call of commandHandler.execute)
    log,             \* what logger.success has printed, oldest first
    aliasCall,       \* the last createCommandAliases call and how it ended
    eventHandlers,   \* botCache.eventHandlers: the events that have a handler
    monitors,        \* botCache.monitors: the names of the registered monitors
    boot,            \* mod.ts: where the startup is and the loads under way
    subcommandCall   \* a parseSubcommand call: its arguments and its result

vars == <<commands, commandAliases, arguments, inhibitors, disp, log, aliasCall,
          eventHandlers, monitors, boot, subcommandCall>>

\* What the startup of mod.ts writes and a dispatch only reads.
bootVars == <<eventHandlers, monitors, boot>>

-----------------------------------------------------------------------------
(* Bounds *)

\* Largest number of inhibitors a registry holds.
NumInhibitors == 3
\* Largest number of aliases handed to one createCommandAliases call.
MaxAliases == 2

-----------------------------------------------------------------------------
(* JavaScript values and strings *)

Undefined == [type |-> "undefined", s |-> <<>>, n |-> 0, b |-> FALSE]
Str(x) == [type |-> "string", s |-> x, n |-> 0, b |-> FALSE]
Num(k) == [type |-> "number", s |-> <<>>, n |-> k, b |-> FALSE]
Bool(x) == [type |-> "boolean", s |-> <<>>, n |-> 0, b |-> x]
\* Not values: a promise that has not settled, and one that rejected.
Pending == [type |-> "pending", s |-> <<>>, n |-> 0, b |-> FALSE]
Thrown == [type |-> "thrown", s |-> <<>>, n |-> 0, b |-> FALSE]
\* An object (a channel), named by its id: always truthy.
Obj(x) == [type |-> "object", s |-> x, n |-> 0, b |-> FALSE]

\* ToBoolean, as `if (v)`, `!v` and `a || b` apply it.
Truthy(v) ==
    CASE v.type = "undefined" -> FALSE
      [] v.type = "string" -> v.s # <<>>
      [] v.type = "number" -> v.n # 0
      [] v.type = "boolean" -> v.b
      [] OTHER -> TRUE

\* String.prototype.startsWith
StartsWith(str, p) == Len(p) <= Len(str) /\ SubSeq(str, 1, Len(p)) = p

\* String.prototype.substring(n)
Substring(str, n) == SubSeq(str, n + 1, Len(str))

\* String.prototype.substring(start, end): the larger index is the end.
SubstringRange(str, start, end) ==
    LET from == IF start <= end THEN start ELSE end
        to == IF start <= end THEN end ELSE start
    IN SubSeq(str, from + 1, to)

UpperOf == [c \in {"g", "s", "x"} |->
              CASE c = "g" -> "G" [] c = "s" -> "S" [] c = "x" -> "X"]

\* String.prototype.toLowerCase, over the letters the model uses
LowerChar(c) ==
    IF \E l \in DOMAIN UpperOf : UpperOf[l] = c
    THEN CHOOSE l \in DOMAIN UpperOf : UpperOf[l] = c
    ELSE c

ToLowerCase(str) == [i \in 1..Len(str) |-> LowerChar(str[i])]

\* Index of the first occurrence of character c in str, 0 when there is none.
IndexOf(str, c) ==
    IF \E i \in 1..Len(str) : str[i] = c
    THEN CHOOSE i \in 1..Len(str) : str[i] = c /\ \A j \in 1..(i - 1) : str[j] # c
    ELSE 0

\* String.prototype.split(sep) for a one-character separator: every
\* occurrence of sep cuts, so adjacent separators give empty strings.
RECURSIVE Split(_, _)
Split(str, sep) ==
    LET i == IndexOf(str, sep) IN
    IF i = 0 THEN <<str>>
    ELSE <<SubSeq(str, 1, i - 1)>> \o Split(SubSeq(str, i + 1, Len(str)), sep)

\* Array.prototype.join(sep)
RECURSIVE Join(_, _)
Join(list, sep) ==
    IF list = <<>> THEN <<>>
    ELSE IF Len(list) = 1 THEN list[1]
    ELSE list[1] \o sep \o Join(Tail(list), sep)

\* Array.prototype.shift on a copy: the list without its first element.
Shift(list) == IF list = <<>> THEN <<>> ELSE Tail(list)

\* Map.prototype.get
MapGet(map, key, absent) == IF key \in DOMAIN map THEN map[key] ELSE absent

\* Map.prototype.set
MapSet(map, key, value) ==
    [k \in DOMAIN map \cup {key} |-> IF k = key THEN value ELSE map[k]]

EmptyMap == [k \in {} |-> Undefined]

-----------------------------------------------------------------------------
(* Names, commands and the registry a started bot holds *)

ping == <<"p", "i", "n", "g">>
pong == <<"p", "o", "n", "g">>
kick == <<"k", "i", "c", "k">>
mute == <<"m", "u", "t", "e">>
slow == <<"s", "l", "o", "w">>
config == <<"c", "f", "g">>
get == <<"g", "e", "t">>
set == <<"s", "e", "t">>

\* An Argument of a command (src/types/commands.ts).  type "" is an absent
\* type, defaultValue Undefined an absent default, missing says whether the
\* argument has a `missing` callback.
Arg(name, type, defaultValue, required, missing) ==
    [name |-> name, type |-> type, defaultValue |-> defaultValue,
     required |-> required, missing |-> missing]

\* What a lookup that finds no command returns (undefined).
NoCommand == [id |-> "undefined"]

Cmd(id, name, hasArguments, args, subcommands) ==
    [id |-> id, name |-> name, hasArguments |-> hasArguments,
     arguments |-> args, subcommands |-> subcommands]

NoSubcommands == [k \in {} |-> NoCommand]

PingCommand == Cmd("ping", ping, FALSE, <<>>, NoSubcommands)

KickCommand ==
    Cmd("kick", kick, TRUE,
        << Arg("user", "", Undefined, TRUE, TRUE),
           Arg("reason", "...string", Undefined, FALSE, FALSE),
           Arg("extra", "string", Undefined, TRUE, TRUE) >>,
        NoSubcommands)

MuteCommand ==
    Cmd("mute", mute, TRUE,
        << Arg("days", "string", Num(0), TRUE, TRUE),
           Arg("why", "string", Str(<<"x">>), FALSE, FALSE),
           Arg("who", "string", Undefined, TRUE, FALSE) >>,
        NoSubcommands)

SlowCommand ==
    Cmd("slow", slow, TRUE,
        << Arg("channel", "textchannel", Undefined, TRUE, TRUE),
           Arg("why", "...string", Undefined, FALSE, FALSE) >>,
        NoSubcommands)

GetSubcommand == Cmd("config/get", get, FALSE, <<>>, NoSubcommands)
SetSubcommand == Cmd("config/set", set, FALSE, <<>>, NoSubcommands)

ConfigCommand ==
    Cmd("config", config, TRUE,
        << Arg("sub", "subcommand", Undefined, FALSE, FALSE),
           Arg("level", "number", Num(1), TRUE, TRUE),
           Arg("key", "string", Undefined, FALSE, FALSE) >>,
        (get :> GetSubcommand) @@ (set :> SetSubcommand))

\* The commands, aliases and resolvers the plugin files of a started bot
\* have registered.  "number" has no resolver.
LoadedCommands ==
    (ping :> PingCommand) @@ (kick :> KickCommand) @@
    (mute :> MuteCommand) @@ (slow :> SlowCommand) @@ (config :> ConfigCommand)

LoadedAliases == (pong :> ping) @@ ((config \o <<"-", "g">>) :> get)

LoadedArguments == {"string", "...string", "subcommand", "textchannel"}

\* configs.prefix
ConfigsPrefix == <<"!">>

\* botCache.guildPrefixes: guild g1 has its own prefix, guild g2 none, guild
\* g3 an empty one.
GuildPrefixes == ("g1" :> <<"?">>) @@ ("g3" :> <<>>)

\* message.guildID of a direct message
NoGuild == "undefined"

\* guild.channels of the guild a message was sent in: id -> channel.
GuildChannels(guildID) ==
    IF guildID = "g1"
    THEN (<<"1">> :> [id |-> <<"1">>, name |-> <<"x">>, type |-> "GUILD_TEXT"]) @@
         (<<"2">> :> [id |-> <<"2">>, name |-> <<"s">>, type |-> "GUILD_VOICE"])
    ELSE (<<"3">> :> [id |-> <<"3">>, name |-> <<"s">>, type |-> "GUILD_TEXT"])

\* What a search for a channel that finds none gives (undefined).
NoChannel == [id |-> <<>>, name |-> <<>>, type |-> "undefined"]

-----------------------------------------------------------------------------
(* Lookups *)

\* parsePrefix: an absent or empty guild prefix falls back to configs.prefix.
parsePrefix(guildID) ==
    LET prefix == IF guildID # NoGuild
                  THEN MapGet(GuildPrefixes, guildID, <<>>)
                  ELSE ConfigsPrefix
    IN IF prefix # <<>> THEN prefix ELSE ConfigsPrefix

\* A lookup that takes the alias first.
parseCommandAliasFirst(commandName) ==
    LET alias == MapGet(commandAliases, commandName, <<>>) IN
    IF alias # <<>> THEN MapGet(commands, alias, NoCommand)
    ELSE MapGet(commands, commandName, NoCommand)

\* parseCommand: the command of that name, else the command its alias names.
parseCommand(commandName) ==
    LET command == MapGet(commands, commandName, NoCommand)
        alias == MapGet(commandAliases, commandName, <<>>)
    IN IF command # NoCommand THEN command
       ELSE IF alias = <<>> THEN NoCommand
       ELSE MapGet(commands, alias, NoCommand)

\* What parseSubcommand throws when name has no toLowerCase method.
TypeErrorCommand == [id |-> "TypeError"]

\* A lookup that takes what an alias stands for from the global command map.
parseSubcommandAmongCommands(command, name) ==
    IF DOMAIN command.subcommands = {} \/ ~Truthy(name) THEN NoCommand
    ELSE LET commandName == ToLowerCase(name.s)
             isCommand == MapGet(command.subcommands, commandName, NoCommand)
         IN IF isCommand # NoCommand THEN isCommand
            ELSE parseCommand(command.name \o <<"-">> \o commandName)

\* parseSubcommand(command, name), name being the parsed value of the first
\* argument: any JavaScript value.
parseSubcommand(command, name) ==
    IF DOMAIN command.subcommands = {} \/ ~Truthy(name) THEN NoCommand
    ELSE IF name.type # "string" THEN TypeErrorCommand
    ELSE LET commandName == ToLowerCase(name.s)
             isCommand == MapGet(command.subcommands, commandName, NoCommand)
             isAlias == MapGet(commandAliases,
                               command.name \o <<"-">> \o commandName, <<>>)
         IN IF isCommand # NoCommand THEN isCommand
            ELSE IF isAlias # <<>>
                 THEN MapGet(command.subcommands, isAlias, NoCommand)
                 ELSE NoCommand

\* guild?.name || "DM" of the log line; a guild is named by its id here.
GuildName(message) == IF message.guildID = NoGuild THEN "DM" ELSE message.guildID

\* A logger that writes every line in the name of the first dispatch.
logCommandOfFirst(d, message, type, commandName) ==
    [dispatch |-> 1, type |-> type, commandName |-> commandName,
     guildName |-> GuildName(disp[1].message)]

\* logCommand: one line of the logger.
logCommand(d, message, type, commandName) ==
    [dispatch |-> d, type |-> type, commandName |-> commandName,
     guildName |-> GuildName(message)]

-----------------------------------------------------------------------------
(* Messages *)

Guilds == {NoGuild, "g1", "g2", "g3"}

\* `!name tokens...`: a content from its prefix and its words, one space each.
Content(prefix, words) == prefix \o Join(words, <<" ">>)

Contents ==
    { Content(<<"!">>, <<ping>>),
      Content(<<"!">>, <<>>),
      Content(<<>>, <<ping>>),
      Content(<<"?">>, <<ping>>),
      Content(<<"!">>, <<pong>>),
      Content(<<"!">>, <<get>>),
      Content(<<"!">>, <<kick>>),
      Content(<<"!">>, <<kick, <<"u">>, <<"r">>, <<"s">> >>),
      Content(<<"!">>, <<kick, <<>>, <<"u">> >>),
      Content(<<"!">>, <<slow>>),
      Content(<<"?">>, <<slow, <<"<", "#", "1", ">">> >>),
      Content(<<"?">>, <<slow, <<"X">>, <<"s">> >>),
      Content(<<"?">>, <<slow, <<"S">> >>),
      Content(<<"!">>, <<slow, <<"s">> >>),
      Content(<<"!">>, <<mute>>),
      Content(<<"!">>, <<mute, <<"x">> >>),
      Content(<<"!">>, <<config>>),
      Content(<<"!">>, <<config, get>>),
      Content(<<"!">>, <<config, <<"S", "e", "t">> >>),
      Content(<<"!">>, <<config, <<"g">> >>),
      Content(<<"!">>, <<config, <<"x">>, <<"s">> >>) }

Message(bot, guildID, content) ==
    [bot |-> bot, guildID |-> guildID, content |-> content]

Messages ==
    { Message(FALSE, g, c) : g \in Guilds, c \in Contents }
    \cup { Message(TRUE, NoGuild, Content(<<"!">>, <<ping>>)) }

-----------------------------------------------------------------------------
(* One dispatch: commandHandler.execute(message) *)

\* The dispatch before its first step.  resolverCalls, missingCalls,
\* inhibitorCalls, handlerCalls and reported list the calls the dispatch has
\* made to resolvers (each with the result it gave), `missing` callbacks, inhibitors, handlers and
\* handleError; raised lists the errors those callbacks have thrown.
NewDispatch(message) ==
    [message |-> message, pc |-> "start", outcome |-> "running",
     commandName |-> <<>>, parameters |-> <<>>, command |-> NoCommand,
     args |-> EmptyMap, params |-> <<>>, argIdx |-> 0,
     missingRequiredArg |-> FALSE, parseResult |-> "none",
     target |-> NoCommand, results |-> <<>>, allowed |-> "none",
     resolverCalls |-> <<>>, missingCalls |-> <<>>, inhibitorCalls |-> <<>>,
     handlerCalls |-> <<>>, reported |-> <<>>, raised |-> <<>>]

\* `return` of execute.
Return(r) == [r EXCEPT !.outcome = "returned", !.pc = "done"]

\* An error that leaves execute: the promise it returned rejects.
Reject(r, error) ==
    [r EXCEPT !.outcome = "rejected", !.pc = "done", !.raised = Append(@, error)]

\* The catch block, after its logCommand: handleError(message, error).
Catch(r, error) ==
    [r EXCEPT !.reported = Append(@, [message |-> r.message, error |-> error]),
              !.outcome = "returned", !.pc = "done"]

\* The resolver key of an argument: argument.type || "string".
ResolverKey(argument) == IF argument.type # "" THEN argument.type ELSE "string"

\* `if (result)`: whether the loop takes the resolver's result as a match.
ResultMatches(result) == Truthy(result)

\* `if (argument.defaultValue)`: whether the loop assigns the default.
HasDefault(argument) == Truthy(argument.defaultValue)

\* `argument.type && ["...string"].includes(argument.type)`
IsRest(argument) == argument.type # "" /\ argument.type \in {"...string"}

\* The end of parseArguments: false when a required argument was missing.
parseArgumentsReturn(r) ==
    [r EXCEPT !.parseResult = IF r.missingRequiredArg THEN "failed" ELSE "args",
              !.pc = "parsed"]

\* `continue`: on to the next declared argument.
NextArgument(r) == [r EXCEPT !.argIdx = @ + 1, !.pc = "argloop"]

\* The start of parseArguments, to the head of its loop.
parseArgumentsEntry(r) ==
    IF ~r.command.hasArguments
    THEN [r EXCEPT !.args = EmptyMap, !.parseResult = "args", !.pc = "parsed"]
    ELSE [r EXCEPT !.args = EmptyMap, !.missingRequiredArg = FALSE,
                   !.params = r.parameters, !.argIdx = 1, !.pc = "argloop"]

\* A `missing` step that goes on with the next argument.
MissingRequiredContinues(r, argument) ==
    NextArgument(
        [r EXCEPT !.missingRequiredArg = TRUE,
                  !.missingCalls = IF argument.missing
                                   THEN Append(@, argument.name) ELSE @])

\* Lines 69-71: a required argument is missing.
MissingRequired(r, argument) ==
    parseArgumentsReturn(
        [r EXCEPT !.missingRequiredArg = TRUE,
                  !.missingCalls = IF argument.missing
                                   THEN Append(@, argument.name) ELSE @])

\* The loop body after `await resolver.execute(...)` gave result.
ResolverResult(r, argument, result) ==
    IF ResultMatches(result)
    THEN LET assigned == [r EXCEPT !.args = MapSet(@, argument.name, result)] IN
         IF IsRest(argument)
         THEN parseArgumentsReturn(assigned)
         ELSE NextArgument([assigned EXCEPT !.params = Shift(@)])
    ELSE IF HasDefault(argument)
         THEN NextArgument(
                  [r EXCEPT !.args = MapSet(@, argument.name, argument.defaultValue)])
    ELSE IF argument.required THEN MissingRequired(r, argument)
    ELSE NextArgument(r)

\* The resolver of type "textchannel": the text channel of the message's
\* guild that the first token mentions (<#id>) or names, else undefined.
textchannel(parameters, message) ==
    IF parameters = <<>> \/ Head(parameters) = <<>> THEN Undefined
    ELSE IF message.guildID = NoGuild THEN Undefined
    ELSE LET id == Head(parameters)
             channels == GuildChannels(message.guildID)
             channelIDOrName == IF StartsWith(id, <<"<", "#">>)
                                THEN SubstringRange(id, 2, Len(id) - 1)
                                ELSE ToLowerCase(id)
             named == {c \in DOMAIN channels : channels[c].name = channelIDOrName}
             channel == IF channelIDOrName \in DOMAIN channels
                        THEN channels[channelIDOrName]
                        ELSE IF named # {} THEN channels[CHOOSE c \in named : TRUE]
                        ELSE NoChannel
         IN IF channel.type # "GUILD_TEXT" THEN Undefined ELSE Obj(channel.id)

\* What a resolver of another type may give for the remaining tokens: no match, a falsy
\* value, a number, its first token or all of them joined.
ResolverResults(params) ==
    {Undefined, Num(0), Bool(FALSE), Str(<<>>), Num(1)}
    \cup (IF params = <<>> THEN {}
          ELSE {Str(params[1]), Str(Join(params, <<" ">>))})

\* The calls commandAllowed makes before its await: every inhibitor, in the
\* order of the map, each with the same command.
commandAllowedCall(r, command) ==
    [r EXCEPT !.target = command,
              !.inhibitorCalls =
                  @ \o [k \in 1..Len(inhibitors) |->
                          [inhibitor |-> inhibitors[k], command |-> command.id]],
              !.results = [k \in 1..Len(inhibitors) |-> "pending"],
              !.pc = "inhibitors"]

\* `await command.execute(message, args, guild)`, up to the await.
HandlerCall(r, command) ==
    [r EXCEPT !.handlerCalls = Append(@, [command |-> command.id, args |-> r.args]),
              !.pc = "handler"]

\* inhibitorResults.includes(true)
Inhibited(results) == \E k \in DOMAIN results : results[k] = "true"

\* The first argument of the command: `const [argument] = command.arguments || []`.
HasFirstArgument(command) == command.hasArguments /\ command.arguments # <<>>

\* A monitor that answers bots too.
IgnoredSenderNever(message) == FALSE

\* `if (message.author.bot) return`
IgnoredSender(message) == message.bot

\* Lines 116-137 and the entry of parseArguments.
Execute(d) ==
    LET r == disp[d]
        message == r.message
        prefix == parsePrefix(message.guildID)
        tokens == Split(Substring(message.content, Len(prefix)), " ")
        commandName == Head(tokens)
        parameters == Tail(tokens)
        command == parseCommand(commandName)
    IN /\ r.pc = "start"
       /\ IF IgnoredSender(message) \/ ~StartsWith(message.content, prefix)
          THEN disp' = [disp EXCEPT ![d] = Return(r)] /\ UNCHANGED log
          ELSE IF command = NoCommand
          THEN disp' = [disp EXCEPT ![d] = Return(r)] /\ UNCHANGED log
          ELSE /\ log' = Append(log, logCommand(d, message, "Ran", commandName))
               /\ disp' = [disp EXCEPT ![d] =
                      parseArgumentsEntry(
                          [r EXCEPT !.commandName = commandName,
                                    !.parameters = parameters,
                                    !.command = command])]
       /\ UNCHANGED <<commands, commandAliases, arguments, inhibitors, aliasCall,
                 bootVars, subcommandCall>>

\* An argument without resolver handled as one whose resolver found nothing.
NoResolverNoMatch(r, argument) == ResolverResult(r, argument, Undefined)

\* `if (!resolver) continue`
NoResolver(r, argument) == NextArgument(r)

\* The head of the argument loop: the end of the list, an argument whose type
\* has no resolver, or the call of the resolver.
ArgLoop(d) ==
    LET r == disp[d] IN
    /\ r.pc = "argloop"
    /\ IF r.argIdx > Len(r.command.arguments)
       THEN disp' = [disp EXCEPT ![d] = parseArgumentsReturn(r)]
       ELSE LET argument == r.command.arguments[r.argIdx] IN
            IF ResolverKey(argument) \notin arguments
            THEN disp' = [disp EXCEPT ![d] = NoResolver(r, argument)]
            ELSE disp' = [disp EXCEPT ![d] =
                     [r EXCEPT !.resolverCalls =
                                   Append(@, [index |-> r.argIdx,
                                              argument |-> argument.name,
                                              parameters |-> r.params,
                                              result |-> Pending]),
                               !.pc = "resolver"]]
    /\ UNCHANGED <<commands, commandAliases, arguments, inhibitors, log, aliasCall,
                 bootVars, subcommandCall>>

\* The awaited resolver gives its result.
ResolverSettle(d) ==
    LET r == disp[d] IN
    /\ r.pc = "resolver"
    /\ \E result \in IF ResolverKey(r.command.arguments[r.argIdx]) = "textchannel"
                      THEN {textchannel(r.params, r.message)}
                      ELSE ResolverResults(r.params) :
           disp' = [disp EXCEPT ![d] =
                        ResolverResult(
                            [r EXCEPT !.resolverCalls[Len(r.resolverCalls)].result = result],
                            r.command.arguments[r.argIdx], result)]
    /\ UNCHANGED <<commands, commandAliases, arguments, inhibitors, log, aliasCall,
                 bootVars, subcommandCall>>

\* The awaited resolver throws: parseArguments is called outside the try.
ResolverThrow(d) ==
    LET r == disp[d] IN
    /\ r.pc = "resolver"
    /\ disp' = [disp EXCEPT ![d] =
                    Reject([r EXCEPT !.resolverCalls[Len(r.resolverCalls)].result = Thrown],
                           [source |-> "resolver", key |-> r.argIdx])]
    /\ UNCHANGED <<commands, commandAliases, arguments, inhibitors, log, aliasCall,
                 bootVars, subcommandCall>>

\* Lines 163-164: no subcommand found, the parent command is executed.
Fallback(r) == HandlerCall(r, r.command)

\* Inhibitors asked about the parent although a subcommand was found.
SubcommandAllowedCallParent(r, subcommand) == commandAllowedCall(r, r.command)

\* Line 176: the inhibitors are asked about the subcommand.
SubcommandAllowedCall(r, subcommand) == commandAllowedCall(r, subcommand)

\* A caller that goes on although the parse failed.
ParseFailedIgnored(r) == FALSE

\* `if (!args) return`
ParseFailed(r) == r.parseResult = "failed"

\* Lines 144-176, up to the next await.
AfterParse(d) ==
    LET r == disp[d]
        argument == r.command.arguments[1]
        subcommand == parseSubcommand(r.command,
                                      MapGet(r.args, argument.name, Undefined))
    IN /\ r.pc = "parsed"
       /\ IF ParseFailed(r)
          THEN disp' = [disp EXCEPT ![d] = Return(r)] /\ UNCHANGED log
          ELSE IF ~HasFirstArgument(r.command) \/ argument.type # "subcommand"
          THEN disp' = [disp EXCEPT ![d] = commandAllowedCall(r, r.command)]
               /\ UNCHANGED log
          ELSE IF subcommand = TypeErrorCommand
          THEN LET error == [source |-> "TypeError", key |-> 0] IN
               /\ log' = Append(log, logCommand(d, r.message, "Failed", r.commandName))
               /\ disp' = [disp EXCEPT ![d] =
                               Catch([r EXCEPT !.raised = Append(@, error)], error)]
          ELSE IF subcommand = NoCommand
          THEN disp' = [disp EXCEPT ![d] = Fallback(r)] /\ UNCHANGED log
          ELSE disp' = [disp EXCEPT ![d] = SubcommandAllowedCall(r, subcommand)]
               /\ UNCHANGED log
       /\ UNCHANGED <<commands, commandAliases, arguments, inhibitors, aliasCall,
                 bootVars, subcommandCall>>

\* One inhibitor's promise settles: true, false or a rejection.
InhibitorSettle(d) ==
    LET r == disp[d] IN
    /\ r.pc = "inhibitors"
    /\ \E k \in DOMAIN r.results :
         /\ r.results[k] = "pending"
         /\ \/ \E b \in {"true", "false"} :
                 disp' = [disp EXCEPT ![d] = [r EXCEPT !.results[k] = b]]
            \/ disp' = [disp EXCEPT ![d] =
                   [r EXCEPT !.results[k] = "rejected",
                             !.raised = Append(@, [source |-> "inhibitor",
                                                   key |-> inhibitors[k]])]]
    /\ UNCHANGED <<commands, commandAliases, arguments, inhibitors, log, aliasCall,
                 bootVars, subcommandCall>>

\* A commandAllowed that lets the command run whatever the inhibitors said.
AllowedAlways(r) == TRUE

\* Lines 104-109: the result of commandAllowed, given every inhibitor's.
Allowed(r) == ~Inhibited(r.results)

\* A caller that runs the handler although commandAllowed returned false.
BlockedRuns(r) == HandlerCall(r, r.target)

\* `if (!(await commandAllowed(...))) return`
Blocked(r) == Return(r)

\* Promise.all settles and commandAllowed goes on: it rejects with the first
\* rejection, else it resolves once every inhibitor has.
commandAllowedResume(d) ==
    LET r == disp[d]
        rejected == \E k \in DOMAIN r.results : r.results[k] = "rejected"
        settled == \A k \in DOMAIN r.results : r.results[k] # "pending"
        first == CHOOSE i \in DOMAIN r.raised : r.raised[i].source = "inhibitor"
                    /\ \A j \in 1..(i - 1) : r.raised[j].source # "inhibitor"
    IN /\ r.pc = "inhibitors"
       /\ rejected \/ settled
       /\ IF rejected
          THEN /\ log' = Append(log, logCommand(d, r.message, "Failed", r.commandName))
               /\ disp' = [disp EXCEPT ![d] =
                               Catch([r EXCEPT !.allowed = "threw"], r.raised[first])]
          ELSE IF ~Allowed(r)
          THEN /\ log' = Append(log, logCommand(d, r.message, "Inhibited", r.target.name))
               /\ disp' = [disp EXCEPT ![d] = Blocked([r EXCEPT !.allowed = "false"])]
          ELSE /\ disp' = [disp EXCEPT ![d] =
                               HandlerCall([r EXCEPT !.allowed = "true"], r.target)]
               /\ UNCHANGED log
       /\ UNCHANGED <<commands, commandAliases, arguments, inhibitors, aliasCall,
                 bootVars, subcommandCall>>

\* The awaited handler returns: "Success" is logged.
HandlerReturn(d) ==
    LET r == disp[d] IN
    /\ r.pc = "handler"
    /\ log' = Append(log, logCommand(d, r.message, "Success", r.commandName))
    /\ disp' = [disp EXCEPT ![d] = Return(r)]
    /\ UNCHANGED <<commands, commandAliases, arguments, inhibitors, aliasCall,
                 bootVars, subcommandCall>>

\* A handler whose error is not caught.
HandlerThrown(r, error) == Reject(r, error)

\* Lines 181-185 for an error of the handler.
HandlerCaught(r, error) == Catch([r EXCEPT !.raised = Append(@, error)], error)

\* The awaited handler throws.
HandlerThrow(d) ==
    LET r == disp[d]
        error == [source |-> "handler", key |-> 0]
        caught == HandlerCaught(r, error)
    IN /\ r.pc = "handler"
       /\ log' = IF caught.outcome = "returned"
                 THEN Append(log, logCommand(d, r.message, "Failed", r.commandName))
                 ELSE log
       /\ disp' = [disp EXCEPT ![d] = caught]
       /\ UNCHANGED <<commands, commandAliases, arguments, inhibitors, aliasCall,
                 bootVars, subcommandCall>>

-----------------------------------------------------------------------------
(* The dispatch of one message by a started bot *)

NoAliasCall == [commandName |-> <<>>, aliases |-> <<>>, threw |-> FALSE]

\* No parseSubcommand call has been made.
NoSubcommandCall ==
    [command |-> NoCommand, name |-> Undefined, result |-> NoCommand,
     returned |-> FALSE]

\* mod.ts before its first statement after botCache, and once Client(...) has
\* been called with every load over.  loads holds the importDirectory calls
\* that wait for an import.
NotStarted == [pc |-> "init", loads |-> {}]
Started == [pc |-> "started", loads |-> {}]

Init ==
    /\ commands = LoadedCommands
    /\ commandAliases = LoadedAliases
    /\ arguments = LoadedArguments
    /\ \E n \in 0..NumInhibitors : inhibitors = [k \in 1..n |-> k]
    /\ \E message \in Messages : disp = [d \in {1} |-> NewDispatch(message)]
    /\ log = <<>>
    /\ aliasCall = NoAliasCall
    /\ eventHandlers = {"messageCreate"}
    /\ monitors = {"commandHandler"}
    /\ boot = Started
    /\ subcommandCall = NoSubcommandCall

Next ==
    \/ \E d \in DOMAIN disp : Execute(d)
    \/ \E d \in DOMAIN disp : ArgLoop(d)
    \/ \E d \in DOMAIN disp : ResolverSettle(d)
    \/ \E d \in DOMAIN disp : ResolverThrow(d)
    \/ \E d \in DOMAIN disp : AfterParse(d)
    \/ \E d \in DOMAIN disp : InhibitorSettle(d)
    \/ \E d \in DOMAIN disp : commandAllowedResume(d)
    \/ \E d \in DOMAIN disp : HandlerReturn(d)
    \/ \E d \in DOMAIN disp : HandlerThrow(d)

Spec == Init /\ [][Next]_vars

-----------------------------------------------------------------------------
(* Registration: what plugin files do to the registry while they load *)

PongCommand == Cmd("pong", pong, FALSE, <<>>, NoSubcommands)
UnnamedCommand == Cmd("", <<>>, FALSE, <<>>, NoSubcommands)

\* The commands plugin files may register, each under its own name.
RegistrableCommands == {PingCommand, PongCommand, UnnamedCommand}

\* The strings registration calls are made with.
RegistryNames == {<<>>, ping, pong}

\* The lists of at most n strings.
RECURSIVE ListsUpTo(_, _)
ListsUpTo(S, n) ==
    IF n = 0 THEN {<<>>}
    ELSE LET shorter == ListsUpTo(S, n - 1) IN
         shorter \cup {Append(l, x) : l \in {s \in shorter : Len(s) = n - 1}, x \in S}

\* botCache.commands.set(command.name, command), as a command file does.
RegisterCommand(command) ==
    /\ commands' = MapSet(commands, command.name, command)
    /\ UNCHANGED <<commandAliases, arguments, inhibitors, disp, log, aliasCall,
                 bootVars, subcommandCall>>

\* A loop that sets every alias, whatever the map holds, and never throws.
AddAliasesOverwriting(map, commandName, aliases) ==
    [map |-> [k \in DOMAIN map \cup {aliases[i] : i \in DOMAIN aliases} |->
                 IF \E i \in DOMAIN aliases : aliases[i] = k
                 THEN commandName ELSE map[k]],
     threw |-> FALSE]

\* The loop of createCommandAliases: the map it leaves and whether it threw.
RECURSIVE AddAliases(_, _, _)
AddAliases(map, commandName, aliases) ==
    IF aliases = <<>> THEN [map |-> map, threw |-> FALSE]
    ELSE IF Head(aliases) \in DOMAIN map THEN [map |-> map, threw |-> TRUE]
    ELSE AddAliases(MapSet(map, Head(aliases), commandName), commandName, Tail(aliases))

\* createCommandAliases(commandName, aliases) for a list of aliases.
createCommandAliases(commandName, aliases) ==
    LET done == AddAliases(commandAliases, commandName, aliases) IN
    /\ commandAliases' = done.map
    /\ aliasCall' = [commandName |-> commandName, aliases |-> aliases,
                     threw |-> done.threw]
    /\ UNCHANGED <<commands, arguments, inhibitors, disp, log,
                 bootVars, subcommandCall>>

\* createCommandAliases(commandName, alias) for a single string:
\* `if (typeof aliases === "string") aliases = [aliases]`.
createCommandAlias(commandName, alias) ==
    createCommandAliases(commandName, <<alias>>)

InitRegistry ==
    /\ commands = [k \in {} |-> NoCommand]
    /\ commandAliases = [k \in {} |-> <<>>]
    /\ arguments = {}
    /\ inhibitors = <<>>
    /\ disp = <<>>
    /\ log = <<>>
    /\ aliasCall = NoAliasCall
    /\ eventHandlers = {}
    /\ monitors = {}
    /\ boot = NotStarted
    /\ subcommandCall = NoSubcommandCall

NextRegistry ==
    \/ \E command \in RegistrableCommands : RegisterCommand(command)
    \/ \E commandName \in RegistryNames, alias \in RegistryNames :
           createCommandAlias(commandName, alias)
    \/ \E commandName \in RegistryNames,
          aliases \in ListsUpTo(RegistryNames, MaxAliases) :
           createCommandAliases(commandName, aliases)

SpecRegistry == InitRegistry /\ [][NextRegistry]_vars

-----------------------------------------------------------------------------
(* Startup: mod.ts and importDirectory *)

\* An entry of a directory: a plugin file, with what its import writes to
\* botCache, or a subdirectory.
File(path, registers, key, command, aliases) ==
    [isFile |-> TRUE, path |-> path, registers |-> registers, key |-> key,
     command |-> command, aliases |-> aliases]

Folder(path) ==
    [isFile |-> FALSE, path |-> path, registers |-> "none", key |-> "",
     command |-> NoCommand, aliases |-> <<>>]

\* Deno.readDirSync(path): the entries of the directories under ./src.
Directory ==
    [path \in {"events", "commands", "commands/general", "inhibitors",
               "arguments", "monitors", "tasks", "permissionLevels"} |->
        CASE path = "events" ->
                 << File("events/messageCreate.ts", "event", "messageCreate",
                         NoCommand, <<>>) >>
          [] path = "commands" ->
                 << File("commands/ping.ts", "command", "", PingCommand, <<pong>>),
                    Folder("commands/general") >>
          [] path = "commands/general" ->
                 << File("commands/general/slow.ts", "command", "", SlowCommand,
                         <<>>) >>
          [] path = "inhibitors" ->
                 << File("inhibitors/one.ts", "inhibitor", "one", NoCommand, <<>>) >>
          [] path = "arguments" ->
                 << File("arguments/textchannel.ts", "argument", "textchannel",
                         NoCommand, <<>>) >>
          [] path = "monitors" ->
                 << File("monitors/commandHandler.ts", "monitor", "commandHandler",
                         NoCommand, <<>>) >>
          [] OTHER -> << >>]

\* The `paths` of mod.ts.
Paths ==
    <<"commands", "inhibitors", "events", "arguments", "monitors", "tasks",
      "permissionLevels">>

\* An importDirectory call at entry pos of its directory; awaited says
\* whether its caller awaits the promise it returned.
Load(path, pos, awaited) == [path |-> path, pos |-> pos, awaited |-> awaited]

\* The loop of importDirectory from the entry `load` is at, as far as it runs
\* without waiting: a subdirectory is a call of importDirectory that is
\* not awaited, a file an import the call waits for, the end of the list the
\* return of the call.  Gives the calls that wait for an import afterwards.
\* (The counter of line 322 only numbers the import URLs.)
RECURSIVE RunLoop(_, _)
RunLoop(loads, load) ==
    LET files == Directory[load.path] IN
    IF load.pos > Len(files) THEN loads
    ELSE IF files[load.pos].isFile THEN loads \cup {load}
    ELSE RunLoop(RunLoop(loads, Load(files[load.pos].path, 1, FALSE)),
                 [load EXCEPT !.pos = @ + 1])

\* importDirectory(path), up to its first await.
importDirectory(loads, path, awaited) == RunLoop(loads, Load(path, 1, awaited))

\* paths.forEach((path) => importDirectory(path)): no call is awaited.
RECURSIVE ImportAll(_, _)
ImportAll(loads, paths) ==
    IF paths = <<>> THEN loads
    ELSE ImportAll(importDirectory(loads, Head(paths), FALSE), Tail(paths))

\* No importDirectory call that mod.ts awaits is still under way.
AwaitedOver == \A load \in boot.loads : ~load.awaited

\* Line 43: `await importDirectory("./src/events")`, up to the await.
BootEvents ==
    /\ boot.pc = "init"
    /\ boot' = [pc |-> "events", loads |-> importDirectory(boot.loads, "events", TRUE)]
    /\ UNCHANGED <<commands, commandAliases, arguments, inhibitors, disp, log,
                   aliasCall, eventHandlers, monitors, subcommandCall>>

\* Lines 45-59: the forEach over paths, then `await loadLanguages()`.
BootPaths ==
    /\ boot.pc = "events"
    /\ AwaitedOver
    /\ boot' = [pc |-> "languages", loads |-> ImportAll(boot.loads, Paths)]
    /\ UNCHANGED <<commands, commandAliases, arguments, inhibitors, disp, log,
                   aliasCall, eventHandlers, monitors, subcommandCall>>

\* Lines 59-67: loadLanguages is over and Client(...) is called.
BootClient ==
    /\ boot.pc = "languages"
    /\ boot' = [boot EXCEPT !.pc = "started"]
    /\ UNCHANGED <<commands, commandAliases, arguments, inhibitors, disp, log,
                   aliasCall, eventHandlers, monitors, subcommandCall>>

\* Line 316: the import a load waits for is done: the file has written to
\* botCache, and the loop of that load goes on.
ImportFile(load) ==
    LET file == Directory[load.path][load.pos] IN
    /\ load \in boot.loads
    /\ boot' = [boot EXCEPT !.loads =
                   RunLoop(boot.loads \ {load}, [load EXCEPT !.pos = @ + 1])]
    /\ commands' = IF file.registers = "command"
                   THEN MapSet(commands, file.command.name, file.command)
                   ELSE commands
    /\ commandAliases' =
           IF file.registers = "command"
           THEN AddAliases(commandAliases, file.command.name, file.aliases).map
           ELSE commandAliases
    /\ arguments' = IF file.registers = "argument"
                    THEN arguments \cup {file.key} ELSE arguments
    /\ inhibitors' = IF file.registers = "inhibitor"
                     THEN Append(inhibitors, Len(inhibitors) + 1) ELSE inhibitors
    /\ monitors' = IF file.registers = "monitor"
                   THEN monitors \cup {file.key} ELSE monitors
    /\ eventHandlers' = IF file.registers = "event"
                        THEN eventHandlers \cup {file.key} ELSE eventHandlers
    /\ UNCHANGED <<disp, log, aliasCall, subcommandCall>>

\* The messages a starting bot receives.
StartupMessages ==
    { Message(FALSE, NoGuild, Content(<<"!">>, <<ping>>)),
      Message(FALSE, "g1", Content(<<"?">>, <<slow, <<"<", "#", "1", ">">> >>)) }

\* The started client hands its first message to the messageCreate handler,
\* which calls the commandHandler monitor.
Receive(message) ==
    /\ boot.pc = "started"
    /\ "messageCreate" \in eventHandlers
    /\ "commandHandler" \in monitors
    /\ disp = <<>>
    /\ disp' = [d \in {1} |-> NewDispatch(message)]
    /\ UNCHANGED <<commands, commandAliases, arguments, inhibitors, log, aliasCall,
                   bootVars, subcommandCall>>

InitStartup ==
    /\ commands = [k \in {} |-> NoCommand]
    /\ commandAliases = [k \in {} |-> <<>>]
    /\ arguments = {}
    /\ inhibitors = <<>>
    /\ disp = <<>>
    /\ log = <<>>
    /\ aliasCall = NoAliasCall
    /\ eventHandlers = {}
    /\ monitors = {}
    /\ boot = NotStarted
    /\ subcommandCall = NoSubcommandCall

NextStartup ==
    \/ BootEvents
    \/ BootPaths
    \/ BootClient
    \/ \E load \in boot.loads : ImportFile(load)
    \/ \E message \in StartupMessages : Receive(message)
    \/ \E d \in DOMAIN disp : Execute(d)
    \/ \E d \in DOMAIN disp : ArgLoop(d)
    \/ \E d \in DOMAIN disp : ResolverSettle(d)
    \/ \E d \in DOMAIN disp : ResolverThrow(d)
    \/ \E d \in DOMAIN disp : AfterParse(d)
    \/ \E d \in DOMAIN disp : InhibitorSettle(d)
    \/ \E d \in DOMAIN disp : commandAllowedResume(d)
    \/ \E d \in DOMAIN disp : HandlerReturn(d)
    \/ \E d \in DOMAIN disp : HandlerThrow(d)

SpecStartup == InitStartup /\ [][NextStartup]_vars

-----------------------------------------------------------------------------
(* parseSubcommand on its own *)

\* The commands parseSubcommand is called with: one with subcommands get and
\* set, one without subcommands.
SubcommandParents == {ConfigCommand, PingCommand}

\* The names it is called with: undefined, the empty string and strings.
SubcommandNames ==
    { Undefined, Str(<<>>), Str(get), Str(<<"S", "e", "t">>), Str(<<"g">>),
      Str(<<"G">>), Str(<<"x">>), Str(ping) }

\* The alias maps it may find: aliases of subcommands of cfg under the key
\* "cfg-<alias>" (g for get, x for set), of a name that is a command but no
\* subcommand of cfg (cfg-x for ping), and aliases that are no such key
\* (g, ping-g).
SubcommandAliases ==
    { [k \in {} |-> <<>>],
      LoadedAliases,
      ((config \o <<"-", "g">>) :> get) @@ ((config \o <<"-", "x">>) :> set),
      ((config \o <<"-", "x">>) :> ping) @@ (<<"g">> :> get),
      ((ping \o <<"-", "g">>) :> get) @@ ((config \o <<"-">> \o ping) :> set) }

\* parseSubcommand(command, name) is called and returns.
ParseSubcommandCall ==
    /\ ~subcommandCall.returned
    /\ subcommandCall' =
           [subcommandCall EXCEPT
               !.result = parseSubcommand(subcommandCall.command, subcommandCall.name),
               !.returned = TRUE]
    /\ UNCHANGED <<commands, commandAliases, arguments, inhibitors, disp, log,
                   aliasCall, bootVars>>

InitSubcommand ==
    /\ commands = LoadedCommands
    /\ commandAliases \in SubcommandAliases
    /\ arguments = LoadedArguments
    /\ inhibitors = <<>>
    /\ disp = <<>>
    /\ log = <<>>
    /\ aliasCall = NoAliasCall
    /\ eventHandlers = {"messageCreate"}
    /\ monitors = {"commandHandler"}
    /\ boot = Started
    /\ \E command \in SubcommandParents, name \in SubcommandNames :
           subcommandCall = [command |-> command, name |-> name,
                             result |-> NoCommand, returned |-> FALSE]

NextSubcommand == ParseSubcommandCall

SpecSubcommand == InitSubcommand /\ [][NextSubcommand]_vars

-----------------------------------------------------------------------------
(* Two messages dispatched at once by a started bot *)

\* The messages of the two dispatches.
ConcurrentMessages ==
    { Message(FALSE, NoGuild, Content(<<"!">>, <<ping>>)),
      Message(FALSE, "g1", Content(<<"?">>, <<slow, <<"<", "#", "1", ">">> >>)),
      Message(FALSE, NoGuild, Content(<<"!">>, <<config, <<"S", "e", "t">> >>)) }

\* Both monitor calls have been made, neither has run yet; one inhibitor.
InitTwo ==
    /\ commands = LoadedCommands
    /\ commandAliases = LoadedAliases
    /\ arguments = LoadedArguments
    /\ inhibitors = <<1>>
    /\ \E first \in ConcurrentMessages, second \in ConcurrentMessages :
           disp = [d \in {1, 2} |-> NewDispatch(IF d = 1 THEN first ELSE second)]
    /\ log = <<>>
    /\ aliasCall = NoAliasCall
    /\ eventHandlers = {"messageCreate"}
    /\ monitors = {"commandHandler"}
    /\ boot = Started
    /\ subcommandCall = NoSubcommandCall

\* Any step of dispatch d.
Step(d) ==
    \/ Execute(d) \/ ArgLoop(d) \/ ResolverSettle(d) \/ ResolverThrow(d)
    \/ AfterParse(d) \/ InhibitorSettle(d) \/ commandAllowedResume(d)
    \/ HandlerReturn(d) \/ HandlerThrow(d)

\* The event loop runs every continuation that is ready, and the resolvers,
\* inhibitors and handlers called for the second message settle; those
\* called for the first may never do.
SpecTwo == InitTwo /\ [][Next]_vars /\ WF_vars(Step(2))

-----------------------------------------------------------------------------
(* Properties *)

\* The number of log lines of dispatch d with the given phase.
CountLog(d, type) ==
    Len(SelectSeq(log, LAMBDA e : e.dispatch = d /\ e.type = type))

\* The number of log lines of dispatch d.
CountLogs(d) == Len(SelectSeq(log, LAMBDA e : e.dispatch = d))

\* The errors inhibitors and handlers have raised in dispatch record r.
ExecutionErrors(r) ==
    SelectSeq(r.raised, LAMBDA e : e.source \in {"inhibitor", "handler"})

\* The declared argument a resolver call was made for.
ArgumentOf(r, call) == r.command.arguments[call.index]

\* The remaining tokens after the k-th resolver call was dealt with: what the
\* next call received, or what the loop holds now.
ParamsAfter(r, k) ==
    IF k < Len(r.resolverCalls) THEN r.resolverCalls[k + 1].parameters ELSE r.params

\* Whether the k-th resolver call of r is the one that made the parse fail.
FailedAt(r, k) ==
    r.missingRequiredArg /\ k = Len(r.resolverCalls)

\* No argument declared after position i has a value.
LaterUnset(r, i) ==
    \A j \in (i + 1)..Len(r.command.arguments) :
        r.command.arguments[j].name \notin DOMAIN r.args

\* C1: a dispatch in which an inhibitor or a handler (the command's, the
\* parent's as fallback, the subcommand's) raised an error never rejects and
\* never logs "Success"; once it is over it has returned, logged "Failed"
\* once and handed the first such error, with the message, to handleError.
C1_ErrorsCaught ==
    \A d \in DOMAIN disp :
        LET r == disp[d]
            errors == ExecutionErrors(r)
        IN errors # <<>> =>
             /\ r.outcome # "rejected"
             /\ CountLog(d, "Success") = 0
             /\ r.pc \in {"inhibitors", "done"}
             /\ r.pc = "done" =>
                  /\ r.outcome = "returned"
                  /\ CountLog(d, "Failed") = 1
                  /\ r.reported = <<[message |-> r.message, error |-> errors[1]]>>

\* C1 witness: the parent's handler, run as fallback for an unknown
\* subcommand, threw and the error was reported.
C1_Witness ==
    \E d \in DOMAIN disp :
        /\ disp[d].pc = "done"
        /\ disp[d].command = ConfigCommand
        /\ disp[d].inhibitorCalls = <<>>
        /\ disp[d].handlerCalls # <<>>
        /\ disp[d].handlerCalls[1].command = "config"
        /\ disp[d].raised = <<[source |-> "handler", key |-> 0]>>
        /\ disp[d].reported # <<>>

\* C2: every resolver result other than undefined is a match: it is stored
\* under the argument's name, one token is consumed (none for a rest
\* argument), and the argument is neither defaulted nor missing.
C2_AnyDefinedResultMatches ==
    \A d \in DOMAIN disp :
        \A k \in DOMAIN disp[d].resolverCalls :
            LET r == disp[d]
                call == r.resolverCalls[k]
                argument == ArgumentOf(r, call)
            IN call.result \notin {Pending, Thrown, Undefined} =>
                 /\ MapGet(r.args, argument.name, Undefined) = call.result
                 /\ ParamsAfter(r, k) =
                        IF IsRest(argument) THEN call.parameters
                        ELSE Shift(call.parameters)
                 /\ ~FailedAt(r, k)

\* C3 as stated: every alias resolves to the command its canonical name
\* resolves to, whatever the command and alias maps hold.
C3_AliasResolvesAsName ==
    \A alias \in DOMAIN commandAliases :
        parseCommand(alias) = parseCommand(commandAliases[alias])

\* C3 amended: an alias that is not itself the name of a registered command,
\* registered for the non-empty name of a registered command, resolves to
\* that command, as the name does.
C3_AliasOfCommandResolvesAsName ==
    \A alias \in DOMAIN commandAliases :
        LET commandName == commandAliases[alias] IN
        (/\ alias \notin DOMAIN commands
         /\ commandName \in DOMAIN commands
         /\ commandName # <<>>) =>
            /\ parseCommand(alias) = commands[commandName]
            /\ parseCommand(alias) = parseCommand(commandName)

\* C3 witness: createCommandAliases registered alias pong for command ping,
\* which is registered, while no command is named pong and ping is itself
\* an alias of something else.
C3_Witness ==
    /\ aliasCall.commandName = ping
    /\ ~aliasCall.threw
    /\ \E i \in DOMAIN aliasCall.aliases : aliasCall.aliases[i] = pong
    /\ pong \in DOMAIN commandAliases
    /\ commandAliases[pong] = ping
    /\ ping \in DOMAIN commands
    /\ pong \notin DOMAIN commands
    /\ ping \in DOMAIN commandAliases
    /\ commandAliases[ping] # ping

\* C4: a required argument without default whose resolver gave undefined
\* makes parseArguments return false, with that argument's `missing`
\* callback (when it has one) the only one called, once, and nothing
\* after that argument looked at.
C4_RequiredMissingFails ==
    \A d \in DOMAIN disp :
        \A k \in DOMAIN disp[d].resolverCalls :
            LET r == disp[d]
                call == r.resolverCalls[k]
                argument == ArgumentOf(r, call)
            IN (/\ call.result = Undefined
                /\ argument.required
                /\ argument.defaultValue = Undefined) =>
                 /\ r.parseResult = "failed"
                 /\ k = Len(r.resolverCalls)
                 /\ r.argIdx = call.index
                 /\ r.missingCalls =
                        IF argument.missing THEN <<argument.name>> ELSE <<>>
                 /\ LaterUnset(r, call.index)
                 /\ argument.name \notin DOMAIN r.args

\* C4 witness: a parse of the arguments of kick failed at the third argument,
\* whose resolver gave undefined, and its `missing` callback ran.
C4_Witness ==
    \E d \in DOMAIN disp :
        /\ disp[d].pc = "done"
        /\ disp[d].parseResult = "failed"
        /\ Len(disp[d].resolverCalls) = 3
        /\ disp[d].resolverCalls[3].result = Undefined
        /\ disp[d].missingCalls = <<"extra">>

\* C5: an argument with a declared default (any value but undefined) whose
\* resolver gave undefined gets the default, no token is consumed, and the
\* parse does not fail at it.
C5_DefaultAssigned ==
    \A d \in DOMAIN disp :
        \A k \in DOMAIN disp[d].resolverCalls :
            LET r == disp[d]
                call == r.resolverCalls[k]
                argument == ArgumentOf(r, call)
            IN (call.result = Undefined /\ argument.defaultValue # Undefined) =>
                 /\ MapGet(r.args, argument.name, Undefined) = argument.defaultValue
                 /\ ParamsAfter(r, k) = call.parameters
                 /\ ~FailedAt(r, k)
                 /\ argument.name \notin {r.missingCalls[i] : i \in DOMAIN r.missingCalls}

\* C6: commandAllowed calls every registered inhibitor once, each with the
\* command it was given, before it looks at any result; when it returns, it
\* returns false, after one "Inhibited" line, exactly when some inhibitor
\* resolved to true, and true otherwise.  (When an inhibitor rejects it
\* returns nothing: it rejects, without an "Inhibited" line.)
C6_InhibitorChain ==
    \A d \in DOMAIN disp :
        LET r == disp[d]
            rejected == \E k \in DOMAIN r.results : r.results[k] = "rejected"
            inhibitedLines ==
                SelectSeq(log, LAMBDA e : e.dispatch = d /\ e.type = "Inhibited")
        IN r.target # NoCommand =>
             /\ r.inhibitorCalls =
                    [k \in 1..Len(inhibitors) |->
                        [inhibitor |-> inhibitors[k], command |-> r.target.id]]
             /\ DOMAIN r.results = 1..Len(inhibitors)
             /\ (r.allowed = "none") = (r.pc = "inhibitors")
             /\ (r.allowed = "threw") = (r.pc # "inhibitors" /\ rejected)
             /\ (r.allowed = "false") =
                    (r.pc # "inhibitors" /\ ~rejected /\ Inhibited(r.results))
             /\ (r.allowed = "true") =
                    (r.pc # "inhibitors" /\ ~rejected /\ ~Inhibited(r.results))
             /\ r.allowed \in {"true", "false"} =>
                    \A k \in DOMAIN r.results : r.results[k] \in {"true", "false"}
             /\ inhibitedLines =
                    IF r.allowed = "false"
                    THEN <<logCommand(d, r.message, "Inhibited", r.target.name)>>
                    ELSE <<>>
             /\ r.allowed = "false" => r.handlerCalls = <<>> /\ r.outcome = "returned"

\* C6 witness: three inhibitors gave false, true, false; all three were
\* called and the command was blocked.
C6_Witness ==
    \E d \in DOMAIN disp :
        /\ disp[d].results = <<"false", "true", "false">>
        /\ Len(disp[d].inhibitorCalls) = 3
        /\ disp[d].allowed = "false"
        /\ CountLog(d, "Inhibited") = 1

\* C7: when the first declared argument is of type "subcommand" and its
\* parsed value names a subcommand, the inhibitors are asked about that
\* subcommand, and the only handler that may run, once and only if they
\* pass, is the subcommand's: the parent's handler never runs.
C7_SubcommandDispatch ==
    \A d \in DOMAIN disp :
        LET r == disp[d]
            argument == r.command.arguments[1]
            subcommand == parseSubcommand(r.command,
                                          MapGet(r.args, argument.name, Undefined))
            call == [command |-> subcommand.id, args |-> r.args]
        IN (/\ r.parseResult = "args"
            /\ r.pc # "parsed"
            /\ HasFirstArgument(r.command)
            /\ argument.type = "subcommand"
            /\ subcommand \notin {NoCommand, TypeErrorCommand}) =>
             /\ subcommand.id # r.command.id
             /\ r.target = subcommand
             /\ r.inhibitorCalls =
                    [k \in 1..Len(inhibitors) |->
                        [inhibitor |-> inhibitors[k], command |-> subcommand.id]]
             /\ r.handlerCalls = IF r.allowed = "true" THEN <<call>> ELSE <<>>

\* C7 witness: `!cfg Set` ran the handler of subcommand set after the
\* inhibitors passed.
C7_Witness ==
    \E d \in DOMAIN disp :
        /\ disp[d].pc = "done"
        /\ disp[d].command = ConfigCommand
        /\ Len(disp[d].inhibitorCalls) > 0
        /\ Len(disp[d].handlerCalls) = 1
        /\ disp[d].handlerCalls[1].command = "config/set"
        /\ CountLog(d, "Success") = 1

\* C8: a dispatch whose argument parse failed calls no inhibitor, no handler
\* and not handleError, logs none of "Success", "Failed", "Inhibited", and
\* returns; the `missing` callback of the failing argument, when it has
\* one, is the only callback called, once.
C8_ParseFailureIsSilent ==
    \A d \in DOMAIN disp :
        LET r == disp[d]
            argument == r.command.arguments[r.argIdx]
        IN r.parseResult = "failed" =>
             /\ r.inhibitorCalls = <<>>
             /\ r.handlerCalls = <<>>
             /\ r.reported = <<>>
             /\ \A type \in {"Success", "Failed", "Inhibited"} : CountLog(d, type) = 0
             /\ r.missingCalls = IF argument.missing THEN <<argument.name>> ELSE <<>>
             /\ r.pc \in {"parsed", "done"}
             /\ r.pc = "done" => r.outcome = "returned"

\* C8 witness: `!kick` with no token ended after the `missing` callback of
\* the required first argument.
C8_Witness ==
    \E d \in DOMAIN disp :
        /\ disp[d].pc = "done"
        /\ disp[d].command = KickCommand
        /\ disp[d].parameters = <<>>
        /\ disp[d].parseResult = "failed"
        /\ disp[d].missingCalls = <<"user">>

\* The message of a dispatch resolves to nothing: a bot sent it, it does not
\* start with the prefix of its guild, or its first word names no command.
Unresolved(message) ==
    LET prefix == parsePrefix(message.guildID) IN
    \/ message.bot
    \/ ~StartsWith(message.content, prefix)
    \/ parseCommand(Head(Split(Substring(message.content, Len(prefix)), " "))) = NoCommand

\* C9: a dispatch of such a message logs nothing, calls no resolver,
\* `missing` callback, inhibitor or handler, reports no error, and returns.
C9_SilentExit ==
    \A d \in DOMAIN disp :
        LET r == disp[d] IN
        Unresolved(r.message) =>
            /\ CountLogs(d) = 0
            /\ r.resolverCalls = <<>>
            /\ r.missingCalls = <<>>
            /\ r.inhibitorCalls = <<>>
            /\ r.handlerCalls = <<>>
            /\ r.reported = <<>>
            /\ r.pc \in {"start", "done"}
            /\ r.pc = "done" => r.outcome = "returned"

\* C9 witness: a message of a user, with the prefix, whose first word names
\* no command, has been dispatched.
C9_Witness ==
    \E d \in DOMAIN disp :
        /\ disp[d].pc = "done"
        /\ ~disp[d].message.bot
        /\ StartsWith(disp[d].message.content, parsePrefix(disp[d].message.guildID))
        /\ Unresolved(disp[d].message)

\* C10: once the resolver of a rest argument ("...string") gave a match
\* (anything but undefined), no later argument is looked at: no later
\* resolver or `missing` callback is called, later arguments stay unset and
\* the parse does not fail.
C10_RestStopsLoop ==
    \A d \in DOMAIN disp :
        \A k \in DOMAIN disp[d].resolverCalls :
            LET r == disp[d]
                call == r.resolverCalls[k]
                argument == ArgumentOf(r, call)
            IN (/\ argument.type = "...string"
                /\ call.result \notin {Pending, Thrown, Undefined}) =>
                 /\ k = Len(r.resolverCalls)
                 /\ r.missingCalls = <<>>
                 /\ LaterUnset(r, call.index)
                 /\ r.parseResult = "args"

\* A step of the registry is a createCommandAliases call (aliasCall' tells
\* which): the only other step, a command file's, changes the commands.
IsAliasCall == commands' = commands /\ aliasCall' # NoAliasCall

\* C11: a createCommandAliases call one of whose aliases is already a key of
\* the alias map throws, and no registration call ever removes a key of the
\* alias map or changes the name an existing key maps to.
C11_DuplicateAliasThrows ==
    [][/\ \A alias \in DOMAIN commandAliases :
             /\ alias \in DOMAIN commandAliases'
             /\ commandAliases'[alias] = commandAliases[alias]
       /\ (/\ IsAliasCall
           /\ \E i \in DOMAIN aliasCall'.aliases :
                  aliasCall'.aliases[i] \in DOMAIN commandAliases)
          => aliasCall'.threw]_vars

\* C11 witness: a call for name ping with alias pong threw, pong being an
\* alias of another name, which it still is.
C11_Witness ==
    /\ aliasCall.threw
    /\ aliasCall.commandName = ping
    /\ \E i \in DOMAIN aliasCall.aliases : aliasCall.aliases[i] = pong
    /\ pong \in DOMAIN commandAliases
    /\ commandAliases[pong] = pong

\* Every plugin file of every directory and subdirectory has been imported:
\* no importDirectory call is under way and its writes are in botCache.
PluginsLoaded ==
    /\ boot.pc \in {"languages", "started"}
    /\ boot.loads = {}
    /\ \A path \in DOMAIN Directory :
           \A i \in DOMAIN Directory[path] :
               LET file == Directory[path][i] IN
               /\ file.registers = "command" =>
                      /\ MapGet(commands, file.command.name, NoCommand) = file.command
                      /\ \A k \in DOMAIN file.aliases :
                             file.aliases[k] \in DOMAIN commandAliases
               /\ file.registers = "argument" => file.key \in arguments
               /\ file.registers = "monitor" => file.key \in monitors
               /\ file.registers = "event" => file.key \in eventHandlers
    /\ Len(inhibitors) =
           Cardinality({path \in DOMAIN Directory :
                           \E i \in DOMAIN Directory[path] :
                               Directory[path][i].registers = "inhibitor"})

\* C12: once the client is started, and whenever a message is being
\* dispatched, plugin loading is over: every plugin file of the listed
\* directories and their subdirectories has made its registry writes.
C12_LoadedBeforeStart ==
    (boot.pc = "started" \/ disp # <<>>) => PluginsLoaded

\* C13: every handler call of a dispatch was made after commandAllowed asked
\* every inhibitor about the command that is run and none of them gave
\* true, on every path of execute.
C13_HandlerAfterInhibitors ==
    \A d \in DOMAIN disp :
        \A i \in DOMAIN disp[d].handlerCalls :
            LET r == disp[d] IN
            /\ r.allowed = "true"
            /\ r.target.id = r.handlerCalls[i].command
            /\ Len(r.inhibitorCalls) = Len(inhibitors)
            /\ \A k \in DOMAIN r.results : r.results[k] = "false"

\* The list without its first m elements.
DropFront(list, m) == SubSeq(list, m + 1, Len(list))

\* The number of resolver calls before the k-th, for arguments that are not
\* rest arguments, that gave a result the predicate takes as a match.
MatchedBefore(r, k, Matches(_)) ==
    Cardinality({j \in 1..(k - 1) :
                    /\ ~IsRest(ArgumentOf(r, r.resolverCalls[j]))
                    /\ Matches(r.resolverCalls[j].result)})

\* A match as the specification has it: any result but undefined.
IsDefined(result) == result # Undefined

\* The tokens execute hands to parseArguments for a message.
ParametersOf(message) ==
    Tail(Split(Substring(message.content, Len(parsePrefix(message.guildID))), " "))

\* C14: the k-th resolver call of a dispatch receives the caller's tokens
\* without their first m, m being the number of earlier calls for non-rest
\* arguments that gave a match (a result other than undefined), and the
\* caller's list stays what execute cut from the message.
C14_TokenAccounting ==
    \A d \in DOMAIN disp :
        \A k \in DOMAIN disp[d].resolverCalls :
            LET r == disp[d] IN
            /\ r.parameters = ParametersOf(r.message)
            /\ r.resolverCalls[k].parameters =
                   DropFront(r.parameters, MatchedBefore(r, k, IsDefined))

\* C15: a createCommandAliases call that throws leaves the alias map as it
\* was before the call.
C15_FailedCallChangesNothing ==
    [][(IsAliasCall /\ aliasCall'.threw) => commandAliases' = commandAliases]_vars

\* The subcommand of parent stored under key, not-found when there is none.
SubcommandUnder(parent, key) == MapGet(parent.subcommands, key, NoCommand)

\* C16: parseSubcommand(parent, name) has returned not-found when the parent
\* has no subcommands or the name is empty; else the parent's subcommand
\* under the lowercased name; else, when "<parentName>-<lowercasedName>" is
\* an alias, the parent's subcommand under the name the alias stands for;
\* else not-found.  What it returned is not-found or one of the parent's own
\* subcommands.
C16_ParseSubcommand ==
    LET parent == subcommandCall.command
        name == subcommandCall.name
        result == subcommandCall.result
        lower == ToLowerCase(name.s)
        key == parent.name \o <<"-">> \o lower
    IN subcommandCall.returned =>
         /\ result = IF DOMAIN parent.subcommands = {} \/ name \in {Undefined, Str(<<>>)}
                     THEN NoCommand
                     ELSE IF lower \in DOMAIN parent.subcommands
                     THEN parent.subcommands[lower]
                     ELSE IF key \in DOMAIN commandAliases
                     THEN SubcommandUnder(parent, commandAliases[key])
                     ELSE NoCommand
         /\ \/ result = NoCommand
            \/ \E k \in DOMAIN parent.subcommands : parent.subcommands[k] = result

\* C16 witness: parseSubcommand(cfg, "G") has returned subcommand get, found
\* under the alias key "cfg-g" after the direct lookup of "g" missed.
C16_Witness ==
    /\ subcommandCall.returned
    /\ subcommandCall.command = ConfigCommand
    /\ subcommandCall.name = Str(<<"G">>)
    /\ <<"g">> \notin DOMAIN ConfigCommand.subcommands
    /\ MapGet(commandAliases, config \o <<"-", "g">>, <<>>) = get
    /\ subcommandCall.result = GetSubcommand

\* C17: a declared argument whose type has no resolver is passed over: it
\* never gets a value, no resolver and no `missing` callback is called for
\* it, the loop never stops at it, the resolver calls for later arguments
\* receive the tokens less one per earlier call that matched, and a parse
\* only fails at an argument whose resolver was called and found nothing.
C17_NoResolverSkips ==
    \A d \in DOMAIN disp :
        LET r == disp[d]
            calls == r.resolverCalls
        IN (r.command # NoCommand /\ r.command.hasArguments) =>
             \A i \in DOMAIN r.command.arguments :
                 LET argument == r.command.arguments[i] IN
                 ResolverKey(argument) \notin arguments =>
                     /\ argument.name \notin DOMAIN r.args
                     /\ \A k \in DOMAIN calls : calls[k].index # i
                     /\ \A k \in DOMAIN r.missingCalls :
                            r.missingCalls[k] # argument.name
                     /\ r.argIdx = i => r.pc = "argloop"
                     /\ \A k \in DOMAIN calls :
                            calls[k].index > i =>
                                calls[k].parameters =
                                    DropFront(r.parameters,
                                              MatchedBefore(r, k, ResultMatches))
                     /\ r.missingRequiredArg =>
                            /\ calls # <<>>
                            /\ calls[Len(calls)].index = r.argIdx
                            /\ ~ResultMatches(calls[Len(calls)].result)

\* C17 witness: the parse of `!cfg x s` went past argument level, required
\* and with a default but of a type without resolver, called the resolver of
\* the argument after it with the tokens that were left, and did not fail.
C17_Witness ==
    \E d \in DOMAIN disp :
        /\ disp[d].command = ConfigCommand
        /\ ResolverKey(ConfigCommand.arguments[2]) \notin arguments
        /\ ConfigCommand.arguments[2].required
        /\ disp[d].parameters = << <<"x">>, <<"s">> >>
        /\ Len(disp[d].resolverCalls) = 2
        /\ disp[d].resolverCalls[1].result = Str(<<"x">>)
        /\ disp[d].resolverCalls[2].index = 3
        /\ disp[d].resolverCalls[2].parameters = << <<"s">> >>
        /\ disp[d].parseResult = "args"
        /\ "level" \notin DOMAIN disp[d].args
        /\ disp[d].missingCalls = <<>>

\* The phases of the log lines of dispatch d, oldest first.
LogTypes(d) ==
    LET lines == SelectSeq(log, LAMBDA e : e.dispatch = d) IN
    [i \in DOMAIN lines |-> lines[i].type]

\* The step changed the record of dispatch d only, and the log by at most one
\* line, of dispatch d.
StepOf(d) ==
    /\ \A e \in DOMAIN disp \ {d} : disp'[e] = disp[e]
    /\ \/ log' = log
       \/ /\ Len(log') = Len(log) + 1
          /\ SubSeq(log', 1, Len(log)) = log
          /\ log'[Len(log')].dispatch = d
          /\ log'[Len(log')].guildName = GuildName(disp[d].message)

\* What dispatch d holds is what its own message, resolver results and
\* inhibitor results give, as in a dispatch of that message alone.
Alone(d) ==
    LET r == disp[d]
        calls == r.resolverCalls
        settled == Len(SelectSeq(calls, LAMBDA c : c.result \notin {Pending, Thrown}))
        types == LogTypes(d)
    IN r.command # NoCommand =>
         /\ <<r.commandName>> \o r.parameters =
                Split(Substring(r.message.content,
                                Len(parsePrefix(r.message.guildID))), " ")
         /\ r.command = parseCommand(r.commandName)
         /\ \A k \in DOMAIN calls :
                /\ calls[k].parameters =
                       DropFront(r.parameters, MatchedBefore(r, k, ResultMatches))
                /\ (/\ calls[k].result \notin {Pending, Thrown}
                    /\ ResultMatches(calls[k].result)) =>
                       MapGet(r.args, calls[k].argument, Undefined) = calls[k].result
         /\ r.command.hasArguments =>
                r.params = DropFront(r.parameters,
                                     MatchedBefore(r, settled + 1, ResultMatches))
         /\ \A name \in DOMAIN r.args :
                \E i \in DOMAIN r.command.arguments :
                    LET argument == r.command.arguments[i] IN
                    /\ argument.name = name
                    /\ \/ r.args[name] = argument.defaultValue
                       \/ \E k \in DOMAIN calls :
                              calls[k].index = i /\ calls[k].result = r.args[name]
         /\ \A i \in DOMAIN r.handlerCalls :
                /\ r.handlerCalls[i].args = r.args
                /\ r.handlerCalls[i].command =
                       IF r.target = NoCommand THEN r.command.id ELSE r.target.id
         /\ types \in { <<"Ran">>, <<"Ran", "Inhibited">>, <<"Ran", "Success">>,
                        <<"Ran", "Failed">> }
         /\ CountLog(d, "Inhibited") = 1 <=> r.allowed = "false"
         /\ CountLog(d, "Failed") = 1 <=> r.reported # <<>>
         /\ CountLog(d, "Success") = 1 <=>
                (r.pc = "done" /\ r.handlerCalls # <<>> /\ r.reported = <<>>)

\* C18: with two dispatches under way, every step is a step of one of them
\* and leaves the record and the log lines of the other as they are; each
\* dispatch's arguments, remaining tokens, handler call and log lines are
\* those of a dispatch of its message alone; and the second dispatch comes to
\* its end whether or not the first one ever goes on.
C18_NoInterference ==
    /\ [][\E d \in DOMAIN disp : StepOf(d)]_vars
    /\ [](\A d \in DOMAIN disp : Alone(d))
    /\ <>(disp[2].pc = "done")

\* C18 witness: the second dispatch is over, its handler called, while the
\* first one, begun before it, still waits for a resolver.
C18_Witness ==
    /\ DOMAIN disp = {1, 2}
    /\ disp[1].pc = "resolver"
    /\ disp[2].pc = "done"
    /\ disp[2].handlerCalls # <<>>
    /\ disp[2].resolverCalls # <<>>
    /\ Len(log) >= 3
    /\ log[1].dispatch = 1

\* C19: a dispatch that resolved a command has logged "Ran" once, as its
\* first line, and after it at most one line, "Inhibited", "Success" or
\* "Failed"; "Success" is only logged once a handler call of the dispatch
\* has returned without error, and after "Inhibited" no handler is run.
C19_LogOrder ==
    \A d \in DOMAIN disp :
        LET r == disp[d]
            types == LogTypes(d)
        IN /\ (r.pc # "start" /\ r.command # NoCommand) =>
                 /\ types # <<>>
                 /\ types[1] = "Ran"
           /\ types # <<>> =>
                 /\ r.command # NoCommand
                 /\ types[1] = "Ran"
                 /\ Len(types) <= 2
                 /\ Len(types) = 2 => types[2] \in {"Inhibited", "Success", "Failed"}
           /\ CountLog(d, "Success") > 0 =>
                 /\ Len(r.handlerCalls) = 1
                 /\ r.pc = "done"
                 /\ r.outcome = "returned"
                 /\ \A i \in DOMAIN r.raised : r.raised[i].source # "handler"
           /\ CountLog(d, "Inhibited") > 0 =>
                 /\ r.handlerCalls = <<>>
                 /\ r.pc = "done"

\* C19 witness: a dispatch is over that logged "Ran" and then "Inhibited",
\* one of its inhibitors having given true, and ran no handler.
C19_Witness ==
    \E d \in DOMAIN disp :
        /\ disp[d].pc = "done"
        /\ LogTypes(d) = <<"Ran", "Inhibited">>
        /\ Inhibited(disp[d].results)
        /\ disp[d].handlerCalls = <<>>

\* The characters that are whitespace.
Whitespace == {" ", "\t", "\n"}

\* The maximal runs of characters of str that are not whitespace, in order.
RECURSIVE Words(_)
Words(str) ==
    IF str = <<>> THEN <<>>
    ELSE IF Head(str) \in Whitespace THEN Words(Tail(str))
    ELSE LET ends == {i \in 1..Len(str) : str[i] \in Whitespace}
             end == IF ends = {} THEN Len(str) + 1
                    ELSE CHOOSE i \in ends : \A j \in ends : i <= j
         IN <<SubSeq(str, 1, end - 1)>> \o Words(SubSeq(str, end, Len(str)))

\* C20: the command name and the tokens a dispatch hands to parseArguments
\* are the maximal runs of non-whitespace characters of the content after
\* the prefix: the name the first, the tokens the others, none of them empty.
C20_Tokenization ==
    \A d \in DOMAIN disp :
        LET r == disp[d]
            prefix == parsePrefix(r.message.guildID)
        IN (r.pc # "start" /\ r.command # NoCommand) =>
             <<r.commandName>> \o r.parameters =
                 Words(Substring(r.message.content, Len(prefix)))

====
